---------------------------- MODULE Spec2Model ----------------------------
(***************************************************************************)
(* Model of src/lib/OpenEXRCore/compression.c: the size-bound estimator    *)
(* (internal_compress_pad_buffer_size and its two callers) and the four    *)
(* buffer codecs built on the libdeflate engine.                           *)
(*                                                                         *)
(* size_t is an unsigned integer of Width bits; every size_t expression of *)
(* the C code is reduced modulo 2^Width where the C code can wrap.         *)
(***************************************************************************)
EXTENDS Integers, Sequences, FiniteSets, TLC

VARIABLES est, call, chunk, live

vars == <<est, call, chunk, live>>

(***************************************************************************)
(* Bounds of the model.                                                    *)
(***************************************************************************)
\* width of size_t in bits (64 on the real targets)
Width == 16
\* how far the sampled sizes reach around 0, around SIZE_MAX / 130 and
\* below SIZE_MAX
Span == 12
\* longest input buffer handed to a codec
MaxIn == 3
\* input bytes the page-split engine puts in one page (65536 in the engine)
PageIn == 1
\* most blocks the engine emits for one stream
MaxBlocks == 2
\* largest out_bytes_avail, out_page_count and out_page_size tried
MaxCap == 8
MaxPages == 3
MaxPageSize == 3

RECURSIVE Pow2(_)
Pow2(k) == IF k = 0 THEN 1 ELSE 2 * Pow2(k - 1)

SIZE_MAX == Pow2(Width) - 1

\* size_t arithmetic
Wrap(x) == x % (SIZE_MAX + 1)

Max(a, b) == IF a > b THEN a ELSE b

(***************************************************************************)
(* Bound estimator                                                         *)
(***************************************************************************)
\* the input sizes tried: small ones, the ones around the first size whose
\* product with 130 leaves size_t, and the largest ones
InSizes ==
    (0 .. Span)
        \cup { n \in ((SIZE_MAX \div 130) - Span) .. ((SIZE_MAX \div 130) + Span) : n >= 0 }
        \cup ((SIZE_MAX - Span) .. SIZE_MAX)

\* the values the engine's native bound may take (the engine is external:
\* any size_t value, sampled near 0, near the input size and near SIZE_MAX)
NativeBounds(n) ==
    (0 .. 3) \cup { Wrap(n + k) : k \in 0 .. 3 } \cup ((SIZE_MAX - Span) .. SIZE_MAX)

\* page counts libdeflate_gdeflate_compress_bound may store in *out_page_count
BoundPageCounts == 1 .. 3

\* a missing overflow check on r + 9
pad_unchecked_add(in_bytes, r) ==
    LET r9    == Wrap(r + 9)
        extra == Wrap(in_bytes * 130)
    IN  IF extra < in_bytes THEN SIZE_MAX
        ELSE IF (extra \div 128) > SIZE_MAX - 100 THEN SIZE_MAX
        ELSE IF (extra \div 128) > r9 THEN extra \div 128
        ELSE r9

internal_compress_pad_buffer_size(in_bytes, r) ==
    IF r > SIZE_MAX - 9 THEN SIZE_MAX
    ELSE LET r9    == r + 9
             extra == Wrap(in_bytes * 130)
         IN  IF extra < in_bytes THEN SIZE_MAX
             ELSE IF (extra \div 128) > SIZE_MAX - 100 THEN SIZE_MAX
             ELSE IF (extra \div 128) > r9 THEN extra \div 128
             ELSE r9

NoEst == [op |-> "none", in_bytes |-> 0, native |-> 0, ret |-> 0,
          page_count |-> 0, page_size |-> 0]

\* exr_compress_max_buffer_size: r is what libdeflate_zlib_compress_bound
\* returned for in_bytes
exr_compress_max_buffer_size(in_bytes, r) ==
    [op |-> "zlib", in_bytes |-> in_bytes, native |-> r,
     ret |-> internal_compress_pad_buffer_size(in_bytes, r),
     page_count |-> 0, page_size |-> 0]

\* exr_compress_gdeflate_max_buffer_size: r and pc are what
\* libdeflate_gdeflate_compress_bound returned and stored in *out_page_count
exr_compress_gdeflate_max_buffer_size(in_bytes, r, pc) ==
    LET padded == internal_compress_pad_buffer_size(in_bytes, r)
    IN  [op |-> "gdeflate", in_bytes |-> in_bytes, native |-> r,
         ret |-> padded, page_count |-> pc, page_size |-> padded \div pc]

(***************************************************************************)
(* The engine (libdeflate), by its contract.  A stream is a sequence of    *)
(* blocks; a block is a header byte 2 * length + final followed by length  *)
(* stored bytes; the last block of a stream, and only the last, is final.  *)
(* The compressor is free in how it cuts its input into blocks, so one     *)
(* input has streams of several lengths, and a stream is never shorter     *)
(* than one byte.  The decompressor stops after the final block.           *)
(***************************************************************************)
Byte == {0, 1}

\* what an output buffer holds before anything is written to it: a value no
\* stream contains
Uninit == 2 * MaxIn + 2

Block(s, final) == <<2 * Len(s) + (IF final THEN 1 ELSE 0)>> \o s

RECURSIVE Encodings(_, _)
Encodings(s, blocks) ==
    {Block(s, TRUE)}
        \cup (IF blocks > 1
              THEN UNION { { Block(SubSeq(s, 1, k), FALSE) \o t :
                               t \in Encodings(SubSeq(s, k + 1, Len(s)), blocks - 1) } :
                           k \in 0 .. Len(s) }
              ELSE {})

\* the decoder: [ok, out, consumed] of the stream that starts at st[pos]
RECURSIVE Parse(_, _, _)
Parse(st, pos, acc) ==
    IF pos > Len(st) THEN [ok |-> FALSE, out |-> acc, consumed |-> Len(st)]
    ELSE LET n     == st[pos] \div 2
             final == st[pos] % 2 = 1
         IN  IF pos + n > Len(st)
             THEN [ok |-> FALSE, out |-> acc, consumed |-> Len(st)]
             ELSE IF final
             THEN [ok |-> TRUE, out |-> acc \o SubSeq(st, pos + 1, pos + n),
                   consumed |-> pos + n]
             ELSE Parse(st, pos + n + 1, acc \o SubSeq(st, pos + 1, pos + n))

Decode(st) == Parse(st, 1, <<>>)

\* the input of the page-split compressor, cut into its pages
RECURSIVE Slices(_)
Slices(x) ==
    IF Len(x) <= PageIn THEN <<x>>
    ELSE <<SubSeq(x, 1, PageIn)>> \o Slices(SubSeq(x, PageIn + 1, Len(x)))

\* every choice of one stream per page
RECURSIVE PageStreams(_)
PageStreams(slices) ==
    IF slices = <<>> THEN {<<>>}
    ELSE { <<e>> \o rest : e \in Encodings(Head(slices), MaxBlocks),
                           rest \in PageStreams(Tail(slices)) }

RECURSIVE SumLen(_)
SumLen(ss) == IF ss = <<>> THEN 0 ELSE Len(Head(ss)) + SumLen(Tail(ss))

RECURSIVE Concat(_)
Concat(ss) == IF ss = <<>> THEN <<>> ELSE Head(ss) \o Concat(Tail(ss))

(***************************************************************************)
(* Memory.  A buffer is a sequence of cells; offset o is cell o + 1.  The  *)
(* output buffer of a call is the first out_bytes_avail cells of an arena  *)
(* long enough for every write the engine can be made to do.               *)
(***************************************************************************)
ArenaSize == Max(MaxCap, (MaxPages - 1) * MaxPageSize + MaxIn + MaxBlocks) + 1

Fresh == [k \in 1 .. ArenaSize |-> Uninit]

WriteAt(m, off, bytes) ==
    [k \in 1 .. Len(m) |->
        IF off < k /\ k <= off + Len(bytes) THEN bytes[k - off] ELSE m[k]]

\* a copy that runs from the last byte down to the first: what memcpy may do
RECURSIVE copy_backward(_, _, _, _)
copy_backward(m, dst, src, n) ==
    IF n = 0 THEN m
    ELSE copy_backward([m EXCEPT ![dst + n] = m[src + n]], dst, src, n - 1)

\* memmove (dest, src, n): the n bytes at src, as they were before the call
memmove(m, dst, src, n) ==
    [k \in 1 .. Len(m) |->
        IF dst < k /\ k <= dst + n THEN m[src + (k - dst)] ELSE m[k]]

(***************************************************************************)
(* The record of one call: its arguments, what the engine did, and what    *)
(* the caller sees afterwards.                                             *)
(***************************************************************************)
EXR_DEFAULT_ZLIB_COMPRESS_LEVEL == 4

\* the caller's actual_out variable before a call writes it
Unwritten == 0 - 1

NoCall ==
    [op |-> "none", level |-> 0, in |-> <<>>, avail |-> 0,
     page_count |-> 0, page_size |-> 0, has_out |-> FALSE,
     alloc |-> FALSE, eres |-> "none", outsz |-> 0, actual_in |-> 0,
     pages |-> <<>>, used |-> <<>>, out |-> <<>>,
     res |-> "none", actual_out |-> Unwritten, null_write |-> FALSE,
     oob |-> FALSE, ctx |-> <<>>, plain |-> <<>>, kind |-> "none"]

\* lines 75-81 and 159-165: deflt is what
\* exr_get_default_zip_compression_level stores
resolve_level(level, deflt) ==
    IF level < 0
    THEN (IF deflt < 0 THEN EXR_DEFAULT_ZLIB_COMPRESS_LEVEL ELSE deflt)
    ELSE level

(***************************************************************************)
(* exr_compress_buffer                                                     *)
(***************************************************************************)
\* libdeflate_zlib_compress: e is the stream the compressor makes of the
\* input; 0 when it does not fit in out_bytes_avail
libdeflate_zlib_compress(e, out, avail) ==
    IF Len(e) <= avail
    THEN [outsz |-> Len(e), out |-> WriteAt(out, 0, e)]
    ELSE [outsz |-> 0, out |-> out]

\* a zero size taken for a result
compress_status_zero_ok(outsz, has_out) ==
    [res |-> "SUCCESS", actual_out |-> IF has_out THEN outsz ELSE Unwritten]

\* lines 96-102
compress_status(outsz, has_out) ==
    IF outsz # 0
    THEN [res |-> "SUCCESS", actual_out |-> IF has_out THEN outsz ELSE Unwritten]
    ELSE [res |-> "OUT_OF_MEMORY", actual_out |-> Unwritten]

\* the compressor not freed when the engine returns 0
compressor_events_leak(comp, outsz) ==
    IF comp
    THEN (IF outsz # 0 THEN <<"alloc", "use", "free">> ELSE <<"alloc", "use">>)
    ELSE <<"alloc_failed">>

\* lines 83, 87, 94: what happens to the compressor context
compressor_events(comp, outsz) ==
    IF comp THEN <<"alloc", "use", "free">> ELSE <<"alloc_failed">>

exr_compress_buffer(level, deflt, in, avail, has_out, comp, e) ==
    LET lvl  == resolve_level(level, deflt)
        base == [NoCall EXCEPT !.op = "compress", !.level = lvl, !.in = in,
                               !.avail = avail, !.has_out = has_out,
                               !.alloc = comp, !.out = Fresh]
    IN  IF comp
        THEN LET eng == libdeflate_zlib_compress(e, Fresh, avail)
                 st  == compress_status(eng.outsz, has_out)
             IN  [base EXCEPT !.outsz = eng.outsz, !.out = eng.out,
                              !.used = IF eng.outsz # 0 THEN <<e>> ELSE <<>>,
                              !.ctx = compressor_events(comp, eng.outsz),
                              !.res = st.res, !.actual_out = st.actual_out]
        ELSE [base EXCEPT !.ctx = compressor_events(comp, 0),
                          !.res = "OUT_OF_MEMORY"]

(***************************************************************************)
(* exr_uncompress_buffer                                                   *)
(***************************************************************************)
\* libdeflate_zlib_decompress_ex: with a null actual_out_nbytes_ret the
\* engine wants the output to fill out_bytes_avail exactly
libdeflate_zlib_decompress_ex(in, avail, has_out) ==
    LET d == Decode(in)
        res == IF ~d.ok THEN "BAD_DATA"
               ELSE IF Len(d.out) > avail THEN "INSUFFICIENT_SPACE"
               ELSE IF ~has_out /\ Len(d.out) < avail THEN "SHORT_OUTPUT"
               ELSE "SUCCESS"
    IN  [res |-> res,
         actual_in |-> d.consumed,
         actual_out |-> IF res = "SUCCESS" /\ has_out THEN Len(d.out) ELSE Unwritten,
         out |-> IF res = "SUCCESS" THEN WriteAt(Fresh, 0, d.out) ELSE Fresh]

\* the engine's word taken without the count of consumed bytes
uncompress_status_unchecked(res, in_bytes, actual_in) ==
    IF res = "SUCCESS" THEN "SUCCESS" ELSE "CORRUPT_CHUNK"

\* lines 134-140
uncompress_status(res, in_bytes, actual_in) ==
    IF res = "SUCCESS" /\ in_bytes = actual_in THEN "SUCCESS" ELSE "CORRUPT_CHUNK"

exr_uncompress_buffer(in, avail, has_out, decomp) ==
    LET base == [NoCall EXCEPT !.op = "uncompress", !.in = in, !.avail = avail,
                               !.has_out = has_out, !.alloc = decomp,
                               !.out = Fresh]
    IN  IF decomp
        THEN LET eng == libdeflate_zlib_decompress_ex(in, avail, has_out)
             IN  [base EXCEPT !.eres = eng.res, !.actual_in = eng.actual_in,
                              !.out = eng.out, !.actual_out = eng.actual_out,
                              !.ctx = <<"alloc", "use", "free">>,
                              !.res = uncompress_status(eng.res, Len(in),
                                                        eng.actual_in)]
        ELSE [base EXCEPT !.ctx = <<"alloc_failed">>, !.res = "OUT_OF_MEMORY"]

(***************************************************************************)
(* exr_compress_buffer_gdeflate                                            *)
(***************************************************************************)
\* lines 172-181: the page descriptors; data is the offset from out
out_pages(avail, page_count, page_size) ==
    LET n         == IF page_count = 0 THEN 1 ELSE page_count
        last_page == n - 1
    IN  [i \in 1 .. n |->
            [data   |-> (i - 1) * page_size,
             nbytes |-> IF i - 1 < last_page
                        THEN page_size
                        ELSE Wrap(avail - last_page * page_size)]]

RECURSIVE WritePages(_, _, _, _)
WritePages(m, pages, es, i) ==
    IF i > Len(es) THEN m
    ELSE WritePages(WriteAt(m, pages[i].data, es[i]), pages, es, i + 1)

\* libdeflate_gdeflate_compress: es holds the stream the compressor makes of
\* each page of the input.  0 when there are too few descriptors or a stream
\* does not fit its descriptor; else every stream is written at its
\* descriptor's data, every descriptor's nbytes becomes what was used of it
\* (0 for a descriptor the input does not reach) and the total is returned
libdeflate_gdeflate_compress(es, pages, out) ==
    IF /\ Len(es) <= Len(pages)
       /\ \A i \in 1 .. Len(es) : Len(es[i]) <= pages[i].nbytes
    THEN [outsz  |-> SumLen(es),
          nbytes |-> [i \in 1 .. Len(pages) |->
                         IF i <= Len(es) THEN Len(es[i]) ELSE 0],
          used   |-> [i \in 1 .. Len(pages) |->
                         IF i <= Len(es) THEN es[i] ELSE <<>>],
          out    |-> WritePages(out, pages, es, 1)]
    ELSE [outsz  |-> 0,
          nbytes |-> [i \in 1 .. Len(pages) |-> pages[i].nbytes],
          used   |-> <<>>,
          out    |-> out]

\* lines 193-198; i is the 1-based index of the page moved next
RECURSIVE compact(_, _, _, _, _)
compact(m, pages, nbytes, i, dest) ==
    IF i > Len(pages) THEN m
    ELSE compact(memmove(m, dest, pages[i].data, nbytes[i]),
                 pages, nbytes, i + 1, dest + nbytes[i])

\* ub: what the build does once the engine has written outside out
exr_compress_buffer_gdeflate(level, deflt, in, avail, page_count, page_size, has_out, comp, es, ub) ==
    LET lvl   == resolve_level(level, deflt)
        pages == out_pages(avail, page_count, page_size)
        base  == [NoCall EXCEPT !.op = "compress_gdeflate", !.level = lvl,
                                !.in = in, !.avail = avail,
                                !.page_count = page_count,
                                !.page_size = page_size, !.has_out = has_out,
                                !.alloc = comp, !.out = Fresh]
    IN  IF comp
        THEN LET eng == libdeflate_gdeflate_compress(es, pages, Fresh)
                 oob == \E i \in 1 .. Len(eng.used) :
                            pages[i].data + Len(eng.used[i]) > avail
                 ran == [base EXCEPT !.pages = pages, !.outsz = eng.outsz,
                                     !.used = eng.used, !.oob = oob,
                                     !.out = eng.out]
             IN  IF oob /\ ub = "crash"
                 THEN [ran EXCEPT !.res = "CRASH", !.ctx = <<"alloc", "use">>]
                 ELSE IF eng.outsz # 0
                 THEN [ran EXCEPT
                         !.ctx = <<"alloc", "use", "free">>,
                         !.actual_out = IF has_out THEN eng.outsz ELSE Unwritten,
                         !.out = compact(eng.out, pages, eng.nbytes, 2,
                                         pages[1].data + eng.nbytes[1]),
                         !.res = "SUCCESS"]
                 ELSE [ran EXCEPT !.ctx = <<"alloc", "use", "free">>,
                                  !.res = "OUT_OF_MEMORY"]
        ELSE [base EXCEPT !.ctx = <<"alloc_failed">>, !.res = "OUT_OF_MEMORY"]

(***************************************************************************)
(* exr_uncompress_buffer_gdeflate                                          *)
(***************************************************************************)
\* libdeflate_gdeflate_decompress on one page: the page holds one stream;
\* strict says whether this engine rejects a page that goes on after its
\* stream's final block
libdeflate_gdeflate_decompress(in, avail, has_out, written, strict) ==
    LET d == Decode(in)
        res == IF ~d.ok THEN "BAD_DATA"
               ELSE IF strict /\ d.consumed < Len(in) THEN "BAD_DATA"
               ELSE IF Len(d.out) > avail THEN "INSUFFICIENT_SPACE"
               ELSE IF ~has_out /\ Len(d.out) < avail THEN "SHORT_OUTPUT"
               ELSE "SUCCESS"
    IN  [res |-> res,
         actual_out |-> IF res = "SUCCESS" /\ has_out THEN Len(d.out) ELSE written,
         out |-> IF res = "SUCCESS" THEN WriteAt(Fresh, 0, d.out) ELSE Fresh]

\* ub: what the build does at the store through a null actual_out (line 223)
exr_uncompress_buffer_gdeflate(in, avail, has_out, decomp, strict, ub) ==
    LET base == [NoCall EXCEPT !.op = "uncompress_gdeflate", !.in = in,
                               !.avail = avail, !.has_out = has_out,
                               !.alloc = decomp, !.out = Fresh]
    IN  IF decomp
        THEN LET stored == [base EXCEPT
                               !.null_write = ~has_out,
                               !.actual_out = IF has_out THEN avail ELSE Unwritten]
                 eng == libdeflate_gdeflate_decompress(in, avail, has_out,
                                                       stored.actual_out, strict)
             IN  IF ~has_out /\ ub = "crash"
                 THEN [stored EXCEPT !.res = "CRASH", !.ctx = <<"alloc">>]
                 ELSE [stored EXCEPT
                         !.eres = eng.res, !.out = eng.out,
                         !.actual_out = eng.actual_out,
                         !.ctx = <<"alloc", "use", "free">>,
                         !.res = IF eng.res = "SUCCESS" THEN "SUCCESS"
                                 ELSE "CORRUPT_CHUNK"]
        ELSE [base EXCEPT !.ctx = <<"alloc_failed">>, !.res = "OUT_OF_MEMORY"]

(***************************************************************************)
(* The calls.  The unit keeps nothing between calls: est and call hold     *)
(* the last call and what it returned, until the caller drops them; chunk  *)
(* is the compressed chunk the caller has kept of a successful compress;   *)
(* live counts the engine contexts allocated and not freed.                *)
(***************************************************************************)
Inputs == UNION { [1 .. n -> Byte] : n \in 0 .. MaxIn }

\* <<level, what exr_get_default_zip_compression_level stores>>: a level
\* given, a default configured, nothing set anywhere
LevelArgs == {<<1, 2>>, <<-1, 2>>, <<-1, -1>>}
Outcomes == {"crash", "carry_on"}

NoChunk == [codec |-> "none", data |-> <<>>, plain |-> <<>>]

\* the engine has a choice to make only once its context exists
EngineChoices(ctx, choices) == IF ctx THEN choices ELSE {<<>>}

Idle == est.op = "none" /\ call.op = "none" /\ chunk.codec = "none"

Count(log, ev) == Cardinality({ i \in 1 .. Len(log) : log[i] = ev })

\* a crashed process holds no context
LiveAfter(l, c) ==
    IF c.res = "CRASH" THEN 0
    ELSE l + Count(c.ctx, "alloc") - Count(c.ctx, "free")

\* what a caller hands to a decoder: the chunk it kept, as it is, with one
\* more byte behind it, or without its last byte; or some bytes of its own
DecodeInputs(codec) ==
    IF chunk.codec = codec
    THEN { [in |-> chunk.data, plain |-> chunk.plain, kind |-> "chunk"],
           [in |-> chunk.data \o <<0>>, plain |-> chunk.plain,
            kind |-> "trailing"],
           [in |-> SubSeq(chunk.data, 1, Len(chunk.data) - 1),
            plain |-> chunk.plain, kind |-> "truncated"] }
    ELSE IF Idle
    THEN { [in |-> s, plain |-> <<>>, kind |-> "raw"] :
             s \in {<<>>, <<1>>, <<3>>, <<0>>, <<3, 1, 1>>} }
    ELSE {}

MaxBufferSize ==
    /\ Idle
    /\ \E n \in InSizes : \E r \in NativeBounds(n) :
          est' = exr_compress_max_buffer_size(n, r)
    /\ UNCHANGED <<call, chunk, live>>

GdeflateMaxBufferSize ==
    /\ Idle
    /\ \E n \in InSizes : \E r \in NativeBounds(n) : \E pc \in BoundPageCounts :
          est' = exr_compress_gdeflate_max_buffer_size(n, r, pc)
    /\ UNCHANGED <<call, chunk, live>>

Compress ==
    /\ Idle
    /\ \E lv \in LevelArgs, in \in Inputs, avail \in 0 .. MaxCap,
          has_out \in BOOLEAN, comp \in BOOLEAN :
          \E e \in EngineChoices(comp, Encodings(in, MaxBlocks)) :
             /\ call' = exr_compress_buffer(lv[1], lv[2], in, avail, has_out,
                                            comp, e)
             /\ live' = LiveAfter(live, call')
    /\ UNCHANGED <<est, chunk>>

Uncompress ==
    /\ \E d \in DecodeInputs("zlib"), avail \in 0 .. MaxIn + 1,
          has_out \in BOOLEAN, decomp \in BOOLEAN :
          /\ call' = [exr_uncompress_buffer(d.in, avail, has_out, decomp)
                         EXCEPT !.plain = d.plain, !.kind = d.kind]
          /\ live' = LiveAfter(live, call')
    /\ chunk' = NoChunk
    /\ UNCHANGED est

CompressGdeflate ==
    /\ Idle
    /\ \E lv \in LevelArgs, in \in Inputs, avail \in 0 .. MaxCap,
          page_count \in 0 .. MaxPages, page_size \in 0 .. MaxPageSize,
          has_out \in BOOLEAN, comp \in BOOLEAN :
          \E es \in EngineChoices(comp, PageStreams(Slices(in))),
             ub \in Outcomes :
             /\ call' = exr_compress_buffer_gdeflate(lv[1], lv[2], in, avail,
                            page_count, page_size, has_out, comp, es, ub)
             /\ ub = "crash" => call'.res = "CRASH"
             /\ live' = LiveAfter(live, call')
    /\ UNCHANGED <<est, chunk>>

UncompressGdeflate ==
    /\ \E d \in DecodeInputs("gdeflate"), avail \in 0 .. MaxIn + 1,
          has_out \in BOOLEAN, decomp \in BOOLEAN, strict \in BOOLEAN,
          ub \in Outcomes :
          /\ call' = [exr_uncompress_buffer_gdeflate(d.in, avail, has_out,
                                                     decomp, strict, ub)
                         EXCEPT !.plain = d.plain, !.kind = d.kind]
          /\ ub = "crash" => call'.res = "CRASH"
          /\ live' = LiveAfter(live, call')
    /\ chunk' = NoChunk
    /\ UNCHANGED est

\* the caller keeps the chunk a successful compress made inside its buffer,
\* whose length it was told through actual_out, and drops the rest
Keep ==
    /\ call.op \in {"compress", "compress_gdeflate"}
    /\ call.res = "SUCCESS"
    /\ call.has_out
    /\ ~call.oob
    /\ chunk' = [codec |-> IF call.op = "compress" THEN "zlib" ELSE "gdeflate",
                 data  |-> SubSeq(call.out, 1, call.actual_out),
                 plain |-> call.in]
    /\ call' = NoCall
    /\ UNCHANGED <<est, live>>

\* the caller drops what the last call returned
Forget ==
    /\ ~Idle
    /\ est' = NoEst
    /\ call' = NoCall
    /\ chunk' = NoChunk
    /\ UNCHANGED live

Init ==
    /\ est = NoEst
    /\ call = NoCall
    /\ chunk = NoChunk
    /\ live = 0

NextBound == MaxBufferSize \/ GdeflateMaxBufferSize \/ Forget

SpecBound == Init /\ [][NextBound]_vars

Next ==
    \/ Compress \/ Uncompress \/ CompressGdeflate \/ UncompressGdeflate
    \/ Keep \/ Forget

Spec == Init /\ [][Next]_vars

(***************************************************************************)
(* Properties of the bound estimator (under SpecBound)                     *)
(***************************************************************************)
Estimated == est.op # "none"

\* C1: neither estimator returns less than the engine's native bound for the
\* input size; what it returns is at least that bound, or it is SIZE_MAX.
C1_NeverBelowNative ==
    Estimated => (est.ret >= est.native \/ est.ret = SIZE_MAX)

\* the page-split estimator has returned the native bound and its margin
C1_Witness ==
    /\ est.op = "gdeflate"
    /\ est.in_bytes > 0
    /\ est.native >= est.in_bytes
    /\ est.ret = est.native + 9
    /\ est.ret < SIZE_MAX

\* C2: whenever r + 9, n * 130 or (n * 130) / 128 + 100 does not fit in
\* size_t, the estimator returns SIZE_MAX.
C2_OverflowSaturates ==
    (/\ Estimated
     /\ \/ est.native + 9 > SIZE_MAX
        \/ est.in_bytes * 130 > SIZE_MAX
        \/ (est.in_bytes * 130) \div 128 + 100 > SIZE_MAX)
        => est.ret = SIZE_MAX

\* C3: when no step overflows, the estimator returns the larger of the
\* native bound + 9 and (n * 130) / 128 + 100.
C3_LargerOfTwoMargins ==
    (/\ Estimated
     /\ est.native + 9 <= SIZE_MAX
     /\ est.in_bytes * 130 <= SIZE_MAX
     /\ (est.in_bytes * 130) \div 128 + 100 <= SIZE_MAX)
        => est.ret = Max(est.native + 9, (est.in_bytes * 130) \div 128 + 100)

(***************************************************************************)
(* Properties of the codecs (under Spec)                                   *)
(***************************************************************************)
\* C4: decompressing what a compress made of x, into a buffer of at least
\* Len(x) bytes, succeeds and gives x back, on the single-stream path and
\* on the page-split path, whose decoder gets the compacted pages as one
\* page.  (Stated for the calls that pass actual_out and get their context.)
C4_RoundTrip ==
    (/\ call.op \in {"uncompress", "uncompress_gdeflate"}
     /\ call.kind = "chunk"
     /\ call.alloc
     /\ call.has_out
     /\ call.avail >= Len(call.plain))
        => /\ call.res = "SUCCESS"
           /\ call.actual_out = Len(call.plain)
           /\ SubSeq(call.out, 1, Len(call.plain)) = call.plain

\* C5: exr_uncompress_buffer returns SUCCESS exactly when it got its
\* context, the engine reported success and the engine consumed the whole
\* input; CORRUPT_CHUNK when it got its context and one of the other two
\* fails; OUT_OF_MEMORY when it got no context.
C5_UncompressResult ==
    call.op = "uncompress" =>
        LET whole == call.eres = "SUCCESS" /\ call.actual_in = Len(call.in)
        IN  /\ call.res = "SUCCESS" <=> (call.alloc /\ whole)
            /\ (call.alloc /\ ~whole) => call.res = "CORRUPT_CHUNK"
            /\ ~call.alloc => call.res = "OUT_OF_MEMORY"

\* a valid stream with a byte behind it: the engine succeeds, the call fails
C5_Witness ==
    /\ call.op = "uncompress"
    /\ call.kind = "trailing"
    /\ call.eres = "SUCCESS"
    /\ call.actual_in = Len(call.in) - 1
    /\ call.res = "CORRUPT_CHUNK"

\* C6: after a successful exr_compress_buffer_gdeflate the length reported
\* is the sum of the pages' used lengths, and the output buffer starts with
\* the bytes the engine wrote for page 0, then those of page 1, and so on,
\* with nothing between them.
C6_Compaction ==
    (call.op = "compress_gdeflate" /\ call.res = "SUCCESS") =>
        /\ call.outsz = SumLen(call.used)
        /\ call.has_out => call.actual_out = SumLen(call.used)
        /\ SubSeq(call.out, 1, SumLen(call.used)) = Concat(call.used)

\* three pages, the first leaves a gap, and the second is moved onto bytes
\* of its own old place
C6_Witness ==
    /\ call.op = "compress_gdeflate"
    /\ call.res = "SUCCESS"
    /\ ~call.oob
    /\ Len(call.pages) = 3
    /\ Len(call.used[1]) < call.page_size
    /\ Len(call.used[2]) > call.page_size - Len(call.used[1])
    /\ Len(call.used[3]) > 0

\* C7: when a call has returned no engine context is live: the call either
\* got no context, or allocated one, used it and freed it, in this order.
C7_NoLiveContext ==
    /\ live = 0
    /\ (call.op # "none" /\ call.res # "CRASH") =>
          call.ctx \in {<<"alloc_failed">>, <<"alloc", "use", "free">>}

\* a call that got its context and returned an error
C7_Witness ==
    /\ call.op = "compress"
    /\ call.alloc
    /\ call.outsz = 0
    /\ call.res = "OUT_OF_MEMORY"
    /\ call.ctx = <<"alloc", "use", "free">>
    /\ live = 0

\* C8: the two compress calls return SUCCESS exactly when they got their
\* context and the engine returned a size other than 0; otherwise they
\* return OUT_OF_MEMORY and leave actual_out unwritten.
C8_CompressResult ==
    (call.op \in {"compress", "compress_gdeflate"} /\ call.res # "CRASH") =>
        /\ call.res = "SUCCESS" <=> (call.alloc /\ call.outsz # 0)
        /\ call.res # "SUCCESS" =>
              (call.res = "OUT_OF_MEMORY" /\ call.actual_out = Unwritten)

\* the engine returned 0 to a caller that passed actual_out
C8_Witness ==
    /\ call.op = "compress_gdeflate"
    /\ call.alloc
    /\ call.has_out
    /\ call.outsz = 0
    /\ call.res = "OUT_OF_MEMORY"
    /\ call.actual_out = Unwritten

\* C9: a call given a null actual_out never stores through it.
C9_OptionalOut ==
    (call.op # "none" /\ ~call.has_out) => ~call.null_write

\* C10: the descriptors handed to the engine: descriptor i at i * page_size,
\* page_size bytes each but the last, the last of
\* out_bytes_avail - (page_count - 1) * page_size bytes, which is not below
\* zero; all inside the output buffer, so that the capacities add up to
\* out_bytes_avail and the used bytes to no more.
C10_PageGeometry ==
    (call.op = "compress_gdeflate" /\ call.alloc) =>
        LET n == Len(call.pages)
        IN  /\ n = (IF call.page_count = 0 THEN 1 ELSE call.page_count)
            /\ \A i \in 1 .. n :
                  /\ call.pages[i].data = (i - 1) * call.page_size
                  /\ i < n => call.pages[i].nbytes = call.page_size
                  /\ call.pages[i].data + call.pages[i].nbytes <= call.avail
            /\ call.pages[n].nbytes = call.avail - (n - 1) * call.page_size
            /\ SumLen(call.used) <= call.avail

=============================================================================
